---- MODULE Spec2Model ----
(***************************************************************************)
(* Chocoflan: a postfix language translated to bytecode and run on a stack *)
(* machine (src/lang.py).  The model follows the source: the Lexer is the  *)
(* pure function next_token over the text and the cursor, the Parser is one *)
(* action per grammar step and the VM one action per opcode, all driven by *)
(* the read loop at the bottom of the file.                                *)
(*                                                                         *)
(* A character is a one-character string; "NUL" stands for chr(0) and      *)
(* "sup2" for the superscript two (U+00B2), a character for which          *)
(* str.isdigit() is true while int() rejects it.  A text is a sequence of  *)
(* characters.  The cursor i is 0-based as in the source, so the character *)
(* under the cursor is src[i + 1].                                         *)
(***************************************************************************)
EXTENDS Integers, Sequences, FiniteSets, TLC

VARIABLES stdin, out, at, err, src, i, cur, code, pulled, pc, stack, env, stores

vars == <<stdin, out, at, err, src, i, cur, code, pulled, pc, stack, env, stores>>

(***************************************************************************)
(* Python values: None, an int, a str.                                     *)
(***************************************************************************)
None == [k |-> "None"]
Int_(n) == [k |-> "int", n |-> n]
Str(s) == [k |-> "str", s |-> s]

(***************************************************************************)
(* Character predicates of Python's str, on the characters of the model.   *)
(***************************************************************************)
NUL == "NUL"

LowerLetters == {"a", "d", "e", "f", "i", "m", "n", "x"}
UpperLetters == {"A", "D", "E", "F", "H", "L", "T", "X"}
DecimalDigits == {"0", "1", "2", "3", "4", "5", "6", "7", "8", "9"}

isspace(c) == c \in {" ", "\t"}
isalpha(c) == c \in LowerLetters \cup UpperLetters
isdigit(c) == c \in DecimalDigits \cup {"sup2"}
isalnum(c) == isalpha(c) \/ isdigit(c)

lowerChar(c) ==
  CASE c = "A" -> "a"
    [] c = "D" -> "d"
    [] c = "E" -> "e"
    [] c = "F" -> "f"
    [] c = "H" -> "h"
    [] c = "L" -> "l"
    [] c = "T" -> "t"
    [] c = "X" -> "x"
    [] OTHER -> c

lower(text) == [k \in 1..Len(text) |-> lowerChar(text[k])]

DigitValue(c) ==
  CASE c = "0" -> 0 [] c = "1" -> 1 [] c = "2" -> 2 [] c = "3" -> 3
    [] c = "4" -> 4 [] c = "5" -> 5 [] c = "6" -> 6 [] c = "7" -> 7
    [] c = "8" -> 8 [] c = "9" -> 9

\* int(text) accepts a text of decimal digits only and raises ValueError
\* otherwise.
IntAccepts(text) == Len(text) > 0 /\ \A k \in 1..Len(text) : text[k] \in DecimalDigits

RECURSIVE IntOf(_)
IntOf(text) ==
  IF Len(text) = 0 THEN 0
  ELSE 10 * IntOf(SubSeq(text, 1, Len(text) - 1)) + DigitValue(text[Len(text)])

(***************************************************************************)
(* Lexer                                                                   *)
(***************************************************************************)
Token(typ, val, pos) == [type |-> typ, val |-> val, pos |-> pos]

KEYWORDS(text) ==
  CASE text = <<"m", "a", "i", "n">> -> "MAIN"
    [] text = <<"e", "n", "d">> -> "END"
    [] text = <<"d", "e", "f">> -> "DEF"
    [] OTHER -> "IDENT"

peek(s, j) == IF j < Len(s) THEN s[j + 1] ELSE NUL

\* A skip of one whitespace character at most.
consume_wsOnce(s, j) == IF isspace(peek(s, j)) THEN j + 1 ELSE j

RECURSIVE consume_ws(_, _)
consume_ws(s, j) == IF isspace(peek(s, j)) THEN consume_ws(s, j + 1) ELSE j

\* A scan of an identifier that leaves the cursor where it found it.
ScanIdentStays(s, j) == j

RECURSIVE ScanIdent(_, _)
ScanIdent(s, j) ==
  IF isalnum(peek(s, j)) \/ peek(s, j) = "_" THEN ScanIdent(s, j + 1) ELSE j

RECURSIVE ScanDigits(_, _)
ScanDigits(s, j) == IF isdigit(peek(s, j)) THEN ScanDigits(s, j + 1) ELSE j

OperatorToken(c, pos) ==
  CASE c = "+" -> Token("ADD", Str(<<c>>), pos)
    [] c = "-" -> Token("SUB", Str(<<c>>), pos)
    [] c = "*" -> Token("MUL", Str(<<c>>), pos)
    [] c = "/" -> Token("DIV", Str(<<c>>), pos)
    [] OTHER -> Token("ERROR", Str(<<c>>), pos)

\* An end of input that moves the cursor on.
AtEofAdvances(pos) == [raised |-> FALSE, tok |-> Token("EOF", None, pos), i |-> pos + 1]

\* Lines 50-51: the EOF token; the cursor stays where it is.
AtEof(pos) == [raised |-> FALSE, tok |-> Token("EOF", None, pos), i |-> pos]

\* One call of Lexer.next_token on text s with the cursor at j: the token
\* returned and the cursor afterwards, or raised = TRUE when int() raises
\* ValueError (the cursor has then passed the digits).
next_token(s, j) ==
  LET pos == consume_ws(s, j)
      ch == peek(s, pos)
  IN  IF ch = NUL
        THEN AtEof(pos)
      ELSE IF isalpha(ch) \/ ch = "_"
        THEN LET e == ScanIdent(s, pos)
                 text == SubSeq(s, pos + 1, e)
             IN  [raised |-> FALSE,
                  tok |-> Token(KEYWORDS(lower(text)), Str(text), pos),
                  i |-> e]
      ELSE IF isdigit(ch)
        THEN LET e == ScanDigits(s, pos)
                 text == SubSeq(s, pos + 1, e)
             IN  IF IntAccepts(text)
                   THEN [raised |-> FALSE,
                         tok |-> Token("NUMBER", Int_(IntOf(text)), pos),
                         i |-> e]
                   ELSE [raised |-> TRUE, tok |-> Token("ERROR", None, pos), i |-> e]
      ELSE [raised |-> FALSE, tok |-> OperatorToken(ch, pos), i |-> pos + 1]

(***************************************************************************)
(* Inputs.  A source line is made of fragments separated by one blank; the *)
(* read loop is given the lines of its standard input.                     *)
(***************************************************************************)
MaxArith == 5
MaxDefs == 5
MaxGeneral == 3
MaxRaw == 3
MaxLines == 2
MaxWrapped == 3
MaxSpaced == 2

RECURSIVE Join(_)
Join(frags) ==
  IF Len(frags) = 0 THEN <<>>
  ELSE IF Len(frags) = 1 THEN frags[1]
  ELSE frags[1] \o <<" ">> \o Join(Tail(frags))

SeqsUpTo(S, n) == UNION {[1..k -> S] : k \in 0..n}

DEFx == <<"d", "e", "f", " ", "x">>

NumberFragments == {<<"1">>, <<"2">>}

ArithFragments == NumberFragments \cup {<<"+">>, <<"-">>, <<"*">>, <<"/">>}

\* Arithmetic sources: a number, then up to MaxArith - 1 numbers and operators.
ArithSources ==
  {Join(<<n>> \o f) : n \in NumberFragments, f \in SeqsUpTo(ArithFragments, MaxArith - 1)}

DEFX == <<"d", "e", "f", " ", "X">>

DefFragments == {<<"1">>, <<"2">>, DEFx, DEFX, <<"x">>}

GeneralFragments ==
  {<<"0">>, <<"1">>, <<"x">>, <<"+">>, <<"/">>, <<"$">>,
   <<"d", "e", "f">>, <<"D", "e", "F">>,
   <<"m", "a", "i", "n">>, <<"e", "n", "d">>, <<"E", "N", "D">>,
   <<"H", "A", "L", "T">>}

RawChars == {"0", "1", "x", "_", "+", "$", " ", "\t", "NUL", "sup2"}

ShortLines ==
  {<<>>, <<"1">>, <<"x">>, <<"+">>, <<"$">>, <<"1", " ", "0", " ", "/">>,
   <<"1", " ">> \o DEFx, <<"2", " ">> \o DEFx \o <<" ", "x">>}

\* Sources wrapped in main ... end.
MAIN_ == <<"m", "a", "i", "n">>
END_ == <<"e", "n", "d">>

Wrap(x) == MAIN_ \o <<" ">> \o x \o <<" ">> \o END_

WrappedFragments == {<<"1">>, <<"2">>, <<"x">>, DEFx, <<"-">>, <<"$">>, <<"d", "e", "f">>}

WrappedSources == {Wrap(Join(f)) : f \in SeqsUpTo(WrappedFragments, MaxWrapped)}

\* Sources with other whitespace than one blank between, before and after
\* the fragments.
Gaps == {<<"\t">>, <<" ", " ">>, <<" ", "\t">>}

RECURSIVE JoinWith(_, _)
JoinWith(frags, gap) ==
  IF Len(frags) = 0 THEN <<>>
  ELSE IF Len(frags) = 1 THEN frags[1]
  ELSE frags[1] \o gap \o JoinWith(Tail(frags), gap)

SpacedFragments == {<<"1">>, <<"x">>, <<"+">>, DEFx, MAIN_, END_}

SpacedSources ==
  {lead \o JoinWith(f, gap) \o trail :
     f \in SeqsUpTo(SpacedFragments, MaxSpaced), gap \in Gaps,
     lead \in {<<>>, <<" ">>}, trail \in {<<>>, <<"\t">>}}

Sources ==
  ArithSources
    \cup SpacedSources
    \cup WrappedSources
    \cup {Join(f) : f \in SeqsUpTo(DefFragments, MaxDefs)}
    \cup {Join(f) : f \in SeqsUpTo(GeneralFragments, MaxGeneral)}
    \cup SeqsUpTo(RawChars, MaxRaw)

Inputs == {<<s>> : s \in Sources} \cup SeqsUpTo(ShortLines, MaxLines)

(***************************************************************************)
(* Failures.  A raised exception that nothing catches ends the process.    *)
(***************************************************************************)
Failure(type, msg, detail) == [type |-> type, msg |-> msg, detail |-> detail]
NoFailure == Failure("none", "", None)

SyntaxError(msg, tok) == Failure("SyntaxError", msg, tok)
ValueError == Failure("ValueError", "invalid literal for int()", None)

\* A failure that is recorded and then ignored: the caller goes on to
\* print its results.
RaiseSwallowed(f) == at' = "report" /\ err' = f

Raise(f) == at' = "raised" /\ err' = f

(***************************************************************************)
(* Parser                                                                  *)
(***************************************************************************)
Instr(op, arg) == [op |-> op, arg |-> arg]

\* An emit that forgets the operand.
emitNoOperand(c, op, arg) == Append(c, Instr(op, None))

emit(c, op, arg) == Append(c, Instr(op, arg))

NoToken == Token("EOF", None, 0)

Init ==
  /\ stdin \in Inputs
  /\ out = <<>>
  /\ at = "prompt"
  /\ err = NoFailure
  /\ src = <<>>
  /\ i = 0
  /\ cur = NoToken
  /\ code = <<>>
  /\ pulled = 0
  /\ pc = 0
  /\ stack = <<>>
  /\ env = <<>>
  /\ stores = <<>>

Prompt == [tag |-> "$ "]

VMVars == <<pc, stack, env, stores>>

\* The read loop, lines 246-252: the prompt, the line read, and for a line
\* that is not empty the entry of compile_and_run: Lexer(src) and
\* Parser(l), whose constructor pulls the first token.
ReadLine ==
  /\ at = "prompt"
  /\ stdin # <<>>
  /\ Head(stdin) # <<>>
  /\ stdin' = Tail(stdin)
  /\ out' = Append(out, Prompt)
  /\ src' = Head(stdin)
  /\ LET r == next_token(Head(stdin), 0)
     IN  /\ i' = r.i
         /\ IF r.raised
              THEN Raise(ValueError) /\ UNCHANGED <<cur, code>>
              ELSE cur' = r.tok /\ code' = <<>> /\ at' = "program" /\ err' = NoFailure
  /\ pulled' = 0
  /\ UNCHANGED VMVars

\* An empty line: `continue`.
ReadEmptyLine ==
  /\ at = "prompt"
  /\ stdin # <<>>
  /\ Head(stdin) = <<>>
  /\ stdin' = Tail(stdin)
  /\ out' = Append(out, Prompt)
  /\ UNCHANGED <<at, err, src, i, cur, code, pulled, pc, stack, env, stores>>

\* End of input: input() raises EOFError and the loop breaks.
ReadEOF ==
  /\ at = "prompt"
  /\ stdin = <<>>
  /\ out' = Append(out, Prompt)
  /\ at' = "exited"
  /\ UNCHANGED <<stdin, err, src, i, cur, code, pulled, pc, stack, env, stores>>

\* A test for MAIN that never succeeds.
OpensMainNever(c) == FALSE

\* Line 106: the program opens with MAIN.
OpensMain(c) == c.type = "MAIN"

\* Parser.program up to the call of code_block, lines 106-108 and 110-111.
ProgramStart ==
  /\ at = "program"
  /\ IF OpensMain(cur)
       THEN LET r == next_token(src, i)
            IN  /\ i' = r.i
                /\ pulled' = pulled + 1
                /\ IF r.raised
                     THEN Raise(ValueError) /\ UNCHANGED cur
                     ELSE cur' = r.tok /\ at' = "code_block_main" /\ UNCHANGED err
       ELSE at' = "code_block" /\ UNCHANGED <<err, i, cur, pulled>>
  /\ UNCHANGED <<stdin, out, src, code, pc, stack, env, stores>>

\* What Parser.expression does with the lookahead token c at cursor j and
\* the code emitted so far: the new lookahead, cursor and code, and the
\* failure raised, if any.
expression(s, j, c, cd) ==
  LET r1 == next_token(s, j)
      ok(r, newcode) == [i |-> r.i, cur |-> r.tok, code |-> newcode, err |-> NoFailure]
      bad(r) == [i |-> r.i, cur |-> c, code |-> cd, err |-> ValueError]
  IN  IF c.type = "NUMBER"
        THEN IF r1.raised THEN bad(r1) ELSE ok(r1, emit(cd, "PUSH", c.val))
      ELSE IF c.type = "IDENT"
        THEN IF r1.raised THEN bad(r1) ELSE ok(r1, emit(cd, "LOAD", c.val))
      ELSE IF c.type = "DEF"
        THEN IF r1.raised THEN bad(r1)
             ELSE IF r1.tok.type # "IDENT"
               THEN [i |-> r1.i, cur |-> r1.tok, code |-> cd,
                     err |-> SyntaxError("Identifier after 'def'", r1.tok)]
             ELSE LET r2 == next_token(s, r1.i)
                  IN  IF r2.raised
                        THEN [i |-> r2.i, cur |-> r1.tok, code |-> cd, err |-> ValueError]
                        ELSE ok(r2, emit(cd, "STORE", r1.tok.val))
      ELSE IF c.type \in {"ADD", "SUB", "MUL", "DIV"}
        THEN IF r1.raised THEN bad(r1) ELSE ok(r1, emit(cd, c.type, None))
      ELSE [i |-> j, cur |-> c, code |-> cd,
            err |-> SyntaxError("Unexpected token in expression", c)]

\* The number of calls of next_token Parser.expression makes, through
\* match, with the lookahead c at cursor j: one for the token it accepts,
\* a second one for the identifier after DEF, none when it rejects c.
expression_pulls(s, j, c) ==
  LET r1 == next_token(s, j)
  IN  IF c.type \in {"NUMBER", "IDENT", "ADD", "SUB", "MUL", "DIV"} THEN 1
      ELSE IF c.type = "DEF"
        THEN IF r1.raised \/ r1.tok.type # "IDENT" THEN 1 ELSE 2
      ELSE 0

\* One iteration of the loop of Parser.code_block, lines 118-119.
Expression ==
  /\ at \in {"code_block", "code_block_main"}
  /\ cur.type \notin {"END", "EOF"}
  /\ LET e == expression(src, i, cur, code)
     IN  /\ i' = e.i
         /\ cur' = e.cur
         /\ code' = e.code
         /\ pulled' = pulled + expression_pulls(src, i, cur)
         /\ IF e.err = NoFailure THEN UNCHANGED <<at, err>> ELSE Raise(e.err)
  /\ UNCHANGED <<stdin, out, src, pc, stack, env, stores>>

\* A program returned without its final HALT.
TerminateMissing(cd) == cd

\* Line 113: the final HALT.
Terminate(cd) == emit(cd, "HALT", None)

\* Parser.program after code_block has returned, lines 109 and 112-114,
\* as a function of the lookahead c and the cursor j: expect END when the
\* block was opened by MAIN, expect EOF, emit HALT.
program_end(s, j, c, cd, wrapped) ==
  LET r1 == next_token(s, j)
      afterEnd ==
        IF ~wrapped THEN [i |-> j, cur |-> c, err |-> NoFailure]
        ELSE IF c.type # "END"
          THEN [i |-> j, cur |-> c, err |-> SyntaxError("Expected END", c)]
        ELSE IF r1.raised THEN [i |-> r1.i, cur |-> c, err |-> ValueError]
        ELSE [i |-> r1.i, cur |-> r1.tok, err |-> NoFailure]
      r2 == next_token(s, afterEnd.i)
  IN  IF afterEnd.err # NoFailure
        THEN [i |-> afterEnd.i, cur |-> afterEnd.cur, code |-> cd, err |-> afterEnd.err]
      ELSE IF afterEnd.cur.type # "EOF"
        THEN [i |-> afterEnd.i, cur |-> afterEnd.cur, code |-> cd,
              err |-> SyntaxError("Expected EOF", afterEnd.cur)]
      ELSE IF r2.raised
        THEN [i |-> r2.i, cur |-> afterEnd.cur, code |-> cd, err |-> ValueError]
      ELSE [i |-> r2.i, cur |-> r2.tok, code |-> Terminate(cd), err |-> NoFailure]

\* The number of calls of next_token program_end makes: expect("END")
\* and expect("EOF") each pull the next token when they match.
program_end_pulls(s, j, c, wrapped) ==
  LET r1 == next_token(s, j)
  IN  IF wrapped
        THEN IF c.type # "END" THEN 0
             ELSE IF r1.raised \/ r1.tok.type # "EOF" THEN 1 ELSE 2
      ELSE IF c.type # "EOF" THEN 0 ELSE 1

\* Parser.code_block and the rest of Parser.program, from the lookahead c
\* at cursor j: the loop of lines 118-119, then program_end.
RECURSIVE code_block(_, _, _, _, _)
code_block(s, j, c, cd, wrapped) ==
  IF c.type \in {"END", "EOF"} THEN program_end(s, j, c, cd, wrapped)
  ELSE LET e == expression(s, j, c, cd)
       IN  IF e.err # NoFailure THEN e
           ELSE code_block(s, e.i, e.cur, e.code, wrapped)

\* Parser(Lexer(s)).program() as a function of the text: the Program
\* returned (err = NoFailure) or the failure raised, with the lookahead
\* and the cursor at that point.
program(s) ==
  LET r0 == next_token(s, 0)
      r1 == next_token(s, r0.i)
  IN  IF r0.raised
        THEN [i |-> r0.i, cur |-> NoToken, code |-> <<>>, err |-> ValueError]
      ELSE IF ~OpensMain(r0.tok) THEN code_block(s, r0.i, r0.tok, <<>>, FALSE)
      ELSE IF r1.raised
        THEN [i |-> r1.i, cur |-> r0.tok, code |-> <<>>, err |-> ValueError]
      ELSE code_block(s, r1.i, r1.tok, <<>>, TRUE)

\* A VM that shares its environment with the VMs before it.
NewVMSharedEnv == [pc |-> 0, stack |-> <<>>, env |-> env]

\* VM.__init__, lines 160-164: the state of a new VM.
NewVM == [pc |-> 0, stack |-> <<>>, env |-> <<>>]

\* The end of Parser.program and, when it returns, VM(bytecode), line 229.
ProgramEnd ==
  /\ at \in {"code_block", "code_block_main"}
  /\ cur.type \in {"END", "EOF"}
  /\ LET e == program_end(src, i, cur, code, at = "code_block_main")
     IN  /\ i' = e.i
         /\ cur' = e.cur
         /\ code' = e.code
         /\ pulled' = pulled + program_end_pulls(src, i, cur, at = "code_block_main")
         /\ IF e.err = NoFailure
              THEN /\ at' = "run"
                   /\ pc' = NewVM.pc
                   /\ stack' = NewVM.stack
                   /\ env' = NewVM.env
                   /\ stores' = <<>>
                   /\ UNCHANGED err
              ELSE Raise(e.err) /\ UNCHANGED VMVars
  /\ UNCHANGED <<stdin, out, src>>

(***************************************************************************)
(* Stack VM.  The stack is a sequence of integers whose last element is    *)
(* the top; env maps a name (a text) to an integer; stores is the history  *)
(* of the STORE instructions this VM has executed, oldest first.           *)
(***************************************************************************)
RuntimeError(msg) == Failure("RuntimeError", msg, None)
NameError(name) == Failure("NameError", "Undefined identifier", name)
ZeroDivisionError == Failure("ZeroDivisionError", "Division by zero", None)

pop1(st) ==
  IF Len(st) = 0
    THEN [raised |-> TRUE, val |-> 0, stack |-> st]
    ELSE [raised |-> FALSE, val |-> st[Len(st)], stack |-> SubSeq(st, 1, Len(st) - 1)]

\* A pop2 that pops the top value before it finds the second one missing.
pop2PopsFirst(st) ==
  IF Len(st) < 2
    THEN [raised |-> TRUE, a |-> 0, b |-> 0,
          stack |-> SubSeq(st, 1, IF Len(st) = 1 THEN 0 ELSE Len(st))]
    ELSE [raised |-> FALSE, a |-> st[Len(st) - 1], b |-> st[Len(st)],
          stack |-> SubSeq(st, 1, Len(st) - 2)]

\* A pop2 that asks for three values.
pop2NeedsThree(st) ==
  IF Len(st) < 3
    THEN [raised |-> TRUE, a |-> 0, b |-> 0, stack |-> st]
    ELSE [raised |-> FALSE, a |-> st[Len(st) - 1], b |-> st[Len(st)],
          stack |-> SubSeq(st, 1, Len(st) - 2)]

\* A pop2 that checks for one value only; the missing operand reads as 0.
pop2ChecksOne(st) ==
  IF Len(st) < 1
    THEN [raised |-> TRUE, a |-> 0, b |-> 0, stack |-> st]
    ELSE [raised |-> FALSE, a |-> IF Len(st) >= 2 THEN st[Len(st) - 1] ELSE 0,
          b |-> st[Len(st)],
          stack |-> SubSeq(st, 1, IF Len(st) >= 2 THEN Len(st) - 2 ELSE 0)]

\* A pop2 that hands the operands over in the order popped.
pop2Swapped(st) ==
  IF Len(st) < 2
    THEN [raised |-> TRUE, a |-> 0, b |-> 0, stack |-> st]
    ELSE [raised |-> FALSE, a |-> st[Len(st)], b |-> st[Len(st) - 1],
          stack |-> SubSeq(st, 1, Len(st) - 2)]

pop2(st) ==
  IF Len(st) < 2
    THEN [raised |-> TRUE, a |-> 0, b |-> 0, stack |-> st]
    ELSE [raised |-> FALSE, a |-> st[Len(st) - 1], b |-> st[Len(st)],
          stack |-> SubSeq(st, 1, Len(st) - 2)]

\* A division that rounds toward zero, as C's `/` does.
TruncDiv(a, b) ==
  IF (a < 0) = (b < 0) \/ a % (IF b < 0 THEN -b ELSE b) = 0
    THEN a \div b
    ELSE (a \div b) + 1

\* Python's a // b for b # 0.
FloorDiv(a, b) == a \div b

ALU(op, a, b) ==
  CASE op = "ADD" -> a + b
    [] op = "SUB" -> a - b
    [] op = "MUL" -> a * b

\* A binding that keeps the first value of a name.
BindKeepsFirst(e, name, val) ==
  [k \in DOMAIN e \cup {name} |-> IF k \in DOMAIN e THEN e[k] ELSE val]

\* A binding that replaces the environment.
BindForgets(e, name, val) == [k \in {name} |-> val]

Bind(e, name, val) ==
  [k \in DOMAIN e \cup {name} |-> IF k = name THEN val ELSE e[k]]

\* A counter that is never advanced.
NextPcStuck == pc

\* Line 181: the counter moves on before the instruction is dispatched.
NextPc == pc + 1

Fetches(op) == at = "run" /\ pc < Len(code) /\ code[pc + 1].op = op

arg == code[pc + 1].arg

ParserVars == <<src, i, cur, code, pulled>>

\* The loop of VM.run ends: at HALT, lines 183-184, or (no program of the
\* Parser gets there) past the last instruction, line 179, or at an opcode
\* the VM does not know, lines 216-217.
Halt ==
  /\ at = "run"
  /\ \/ pc >= Len(code)
     \/ code[pc + 1].op \notin {"PUSH", "LOAD", "STORE", "ADD", "SUB", "MUL", "DIV"}
  /\ IF pc >= Len(code) THEN at' = "report" /\ UNCHANGED <<pc, err>>
     ELSE IF code[pc + 1].op = "HALT" THEN at' = "report" /\ pc' = NextPc /\ UNCHANGED err
     ELSE pc' = NextPc /\ Raise(RuntimeError("Unknown opcode"))
  /\ UNCHANGED <<stdin, out, stack, env, stores>>
  /\ UNCHANGED ParserVars

Push ==
  /\ Fetches("PUSH")
  /\ pc' = NextPc
  /\ stack' = Append(stack, arg.n)
  /\ UNCHANGED <<stdin, out, at, err, env, stores>>
  /\ UNCHANGED ParserVars

Load ==
  /\ Fetches("LOAD")
  /\ pc' = NextPc
  /\ IF arg.s \notin DOMAIN env
       THEN Raise(NameError(arg)) /\ UNCHANGED stack
       ELSE stack' = Append(stack, env[arg.s]) /\ UNCHANGED <<at, err>>
  /\ UNCHANGED <<stdin, out, env, stores>>
  /\ UNCHANGED ParserVars

Store ==
  /\ Fetches("STORE")
  /\ pc' = NextPc
  /\ LET p == pop1(stack)
     IN  IF p.raised
           THEN /\ Raise(RuntimeError("Stack underflow: need one operand"))
                /\ stack' = p.stack
                /\ UNCHANGED <<env, stores>>
           ELSE /\ stack' = p.stack
                /\ env' = Bind(env, arg.s, p.val)
                /\ stores' = Append(stores, [name |-> arg.s, val |-> p.val])
                /\ UNCHANGED <<at, err>>
  /\ UNCHANGED <<stdin, out>>
  /\ UNCHANGED ParserVars

BinaryOp(op) ==
  /\ Fetches(op)
  /\ pc' = NextPc
  /\ LET p == pop2(stack)
     IN  IF p.raised
           THEN /\ Raise(RuntimeError("Stack underflow: need two operands"))
                /\ stack' = p.stack
           ELSE stack' = Append(p.stack, ALU(op, p.a, p.b)) /\ UNCHANGED <<at, err>>
  /\ UNCHANGED <<stdin, out, env, stores>>
  /\ UNCHANGED ParserVars

Add == BinaryOp("ADD")

Sub == BinaryOp("SUB")

Mul == BinaryOp("MUL")

Div ==
  /\ Fetches("DIV")
  /\ pc' = NextPc
  /\ LET p == pop2(stack)
     IN  IF p.raised
           THEN /\ Raise(RuntimeError("Stack underflow: need two operands"))
                /\ stack' = p.stack
           ELSE IF p.b = 0
             THEN Raise(ZeroDivisionError) /\ stack' = p.stack
           ELSE stack' = Append(p.stack, FloorDiv(p.a, p.b)) /\ UNCHANGED <<at, err>>
  /\ UNCHANGED <<stdin, out, env, stores>>
  /\ UNCHANGED ParserVars

(***************************************************************************)
(* compile_and_run after vm.run() has returned, lines 232-236, and the     *)
(* return to the read loop.                                                *)
(***************************************************************************)
Line(tag, v) == [tag |-> tag, v |-> v]

list_bytecode(c) == <<Line("Bytecode:", None)>> \o [k \in 1..Len(c) |-> Line("instr", c[k])]

Printed(c, e, st) ==
  list_bytecode(c) \o <<Line("Env:", e), Line("Stack:", st)>>
    \o (IF Len(st) > 0 THEN <<Line("Result:", st[Len(st)])>> ELSE <<>>)

Report ==
  /\ at = "report"
  /\ out' = out \o Printed(code, env, stack)
  /\ at' = "prompt"
  /\ UNCHANGED <<stdin, err, pc, stack, env, stores>>
  /\ UNCHANGED ParserVars

Next ==
  \/ ReadLine
  \/ ReadEmptyLine
  \/ ReadEOF
  \/ ProgramStart
  \/ Expression
  \/ ProgramEnd
  \/ Halt
  \/ Push
  \/ Load
  \/ Store
  \/ Add
  \/ Sub
  \/ Mul
  \/ Div
  \/ Report

Spec == Init /\ [][Next]_vars

(***************************************************************************)
(* The token stream of a text: the tokens next_token returns from cursor j *)
(* up to the first EOF, which is left out; raised tells that int() raised  *)
(* on the way.                                                             *)
(***************************************************************************)
RECURSIVE Tokens(_, _)
Tokens(s, j) ==
  LET r == next_token(s, j)
  IN  IF r.raised THEN [raised |-> TRUE, toks |-> <<>>]
      ELSE IF r.tok.type = "EOF" THEN [raised |-> FALSE, toks |-> <<>>]
      ELSE LET rest == Tokens(s, r.i)
           IN  [raised |-> rest.raised, toks |-> <<r.tok>> \o rest.toks]

Operators == {"ADD", "SUB", "MUL", "DIV"}

Last(q) == q[Len(q)]

(***************************************************************************)
(* Reference semantics of a postfix expression, by its tree: the last      *)
(* token is the root operator, the shortest complete expression before it  *)
(* is the right operand and what precedes that is the left operand.        *)
(***************************************************************************)
\* Numbers minus operators among ts[a..b].
Balance(ts, a, b) ==
  Cardinality({k \in a..b : ts[k].type = "NUMBER"})
    - Cardinality({k \in a..b : ts[k].type \in Operators})

\* N >= 1 numbers and N-1 operators, each operator finding two operands.
ValidPostfix(ts) ==
  /\ Len(ts) >= 1
  /\ \A k \in 1..Len(ts) : ts[k].type \in Operators \cup {"NUMBER"}
  /\ Balance(ts, 1, Len(ts)) = 1
  /\ \A k \in 1..Len(ts) : Balance(ts, 1, k) >= 1

\* The integer q with q <= a/b < q + 1.
MathFloor(a, b) ==
  LET m == (IF a < 0 THEN -a ELSE a) + 1
  IN  CHOOSE q \in (-m)..m :
        IF b > 0 THEN q * b <= a /\ a < (q + 1) * b
                 ELSE q * b >= a /\ a > (q + 1) * b

RECURSIVE RefEval(_)
RefEval(ts) ==
  LET n == Len(ts)
  IN  IF n = 1 THEN [ok |-> TRUE, v |-> ts[1].val.n]
      ELSE LET k == CHOOSE j \in 1..(n - 1) :
                      /\ Balance(ts, j, n - 1) = 1
                      /\ \A h \in (j + 1)..(n - 1) : Balance(ts, h, n - 1) # 1
               l == RefEval(SubSeq(ts, 1, k - 1))
               r == RefEval(SubSeq(ts, k, n - 1))
               op == ts[n].type
           IN  IF ~l.ok \/ ~r.ok THEN [ok |-> FALSE, v |-> 0]
               ELSE IF op = "ADD" THEN [ok |-> TRUE, v |-> l.v + r.v]
               ELSE IF op = "SUB" THEN [ok |-> TRUE, v |-> l.v - r.v]
               ELSE IF op = "MUL" THEN [ok |-> TRUE, v |-> l.v * r.v]
               ELSE IF r.v = 0 THEN [ok |-> FALSE, v |-> 0]
               ELSE [ok |-> TRUE, v |-> MathFloor(l.v, r.v)]

\* The text is a valid postfix expression none of whose divisions has a
\* zero right operand.
ValidExpression(s) ==
  LET t == Tokens(s, 0)
  IN  ~t.raised /\ ValidPostfix(t.toks) /\ RefEval(t.toks).ok

\* C1: compiling and running a valid postfix expression of N numbers and
\* N-1 binary operators, none dividing by zero, does not fail and leaves
\* exactly one value on the stack, the value of the expression with the
\* deeper operand on the left and '/' rounding toward minus infinity.
C1_PostfixValue ==
  (at \in {"report", "raised"} /\ ValidExpression(src))
    => /\ at = "report"
       /\ stack = <<RefEval(Tokens(src, 0).toks).v>>

\* A run of "1 2 - 2 /" has ended: -1 divided by 2 is -1, not 0.
C1_Witness ==
  /\ at = "report"
  /\ src = <<"1", " ", "2", " ", "-", " ", "2", " ", "/">>
  /\ ValidExpression(src)
  /\ stack = <<-1>>

(***************************************************************************)
(* The Program a token stream stands for: one instruction per expression.  *)
(***************************************************************************)
RECURSIVE Translate(_)
Translate(ts) ==
  IF Len(ts) = 0 THEN <<>>
  ELSE LET t == ts[1]
       IN  IF t.type = "NUMBER" THEN <<Instr("PUSH", t.val)>> \o Translate(Tail(ts))
           ELSE IF t.type = "IDENT" THEN <<Instr("LOAD", t.val)>> \o Translate(Tail(ts))
           ELSE IF t.type = "DEF" /\ Len(ts) >= 2
             THEN <<Instr("STORE", ts[2].val)>> \o Translate(Tail(Tail(ts)))
           ELSE IF t.type \in Operators THEN <<Instr(t.type, None)>> \o Translate(Tail(ts))
           ELSE Translate(Tail(ts))

\* The expressions of a token stream: every token but MAIN, END and DEF, an
\* identifier after DEF making one expression with it.
NumExpressions(ts) ==
  Cardinality({k \in 1..Len(ts) : ts[k].type \notin {"MAIN", "END", "DEF"}})

Parsed == at \in {"run", "report"}

\* C2: the Program returned for a source that parses is, in source order,
\* PUSH n for a number, LOAD name for an identifier, STORE name for DEF
\* and its identifier, the opcode of an operator token, then one HALT;
\* MAIN, END and DEF emit nothing, so its length is the number of
\* expressions plus one.
C2_ProgramIsTranslation ==
  Parsed =>
    LET ts == Tokens(src, 0).toks
    IN  /\ code = Translate(ts) \o <<Instr("HALT", None)>>
        /\ Len(code) = NumExpressions(ts) + 1

\* A source with a number, a definition and a load has been parsed.
C2_Witness ==
  /\ Parsed
  /\ \E k \in 1..Len(code) : code[k].op = "STORE"
  /\ \E k \in 1..Len(code) : code[k].op = "LOAD"
  /\ \E k \in 1..Len(code) : code[k].op = "PUSH"
  /\ Len(code) >= 5

\* C3: a Program returned by the Parser holds exactly one HALT, its last
\* instruction, whatever the source, an identifier spelled HALT included.
C3_OneFinalHalt ==
  Parsed =>
    /\ Len(code) >= 1
    /\ \A k \in 1..Len(code) : (code[k].op = "HALT") <=> (k = Len(code))

\* The source used an identifier spelled HALT.
C3_Witness ==
  /\ Parsed
  /\ \E k \in 1..(Len(code) - 1) : code[k] = Instr("LOAD", Str(<<"H", "A", "L", "T">>))

(***************************************************************************)
(* Failures of the VM                                                      *)
(***************************************************************************)
IsUnderflow(f) ==
  /\ f.type = "RuntimeError"
  /\ f.msg \in {"Stack underflow: need one operand", "Stack underflow: need two operands"}

\* The instruction about to be executed.
Running == at = "run" /\ pc < Len(code)
op == code[pc + 1].op

LoadUnbound == op = "LOAD" /\ arg.s \notin DOMAIN env
DivByZero == op = "DIV" /\ Len(stack) >= 1 /\ Last(stack) = 0
Underflows ==
  \/ op = "STORE" /\ Len(stack) = 0
  \/ op \in Operators /\ Len(stack) < 2

Fails == at = "run" /\ at' = "raised"

\* C4 as stated: a Program of the Parser in which no LOAD is unbound and no
\* DIV has a zero right operand never makes VM.run() raise.
C4_Original == [][Fails => (LoadUnbound \/ DivByZero)]_vars

\* C4, amended: VM.run() on a Program of the Parser raises only at a LOAD
\* of an unbound name, a DIV whose right operand is zero, or a STORE or
\* arithmetic opcode that finds too few values on the stack; the failure
\* is then the undefined-identifier, division-by-zero or stack-underflow
\* failure respectively, and never another one.
C4_RaisesOnlyThreeWays ==
  [][Fails =>
       /\ Running
       /\ LoadUnbound \/ DivByZero \/ Underflows
       /\ err'.type \in {"NameError", "ZeroDivisionError", "RuntimeError"}
       /\ err'.type = "NameError" => LoadUnbound
       /\ err'.type = "ZeroDivisionError" => DivByZero /\ ~Underflows
       /\ err'.type = "RuntimeError" => Underflows /\ IsUnderflow(err')]_vars

\* An arithmetic opcode with two operands has executed and the run goes on.
C4_Witness ==
  /\ at = "run"
  /\ pc >= 3
  /\ code[pc].op \in Operators
  /\ code[pc - 1].op = "PUSH"
  /\ code[pc - 2].op = "PUSH"
  /\ Len(stack) = 1

VMFailure == err.type \in {"NameError", "ZeroDivisionError", "RuntimeError"}

\* C5: the program counter starts at 0 and every executed instruction
\* raises it by exactly one, so that it never decreases and never passes
\* the length of the Program; a run that does not fail has executed as
\* many instructions, the final HALT included, as the Program holds.
C5_CounterCountsInstructions ==
  /\ [][(at # "run" /\ at' = "run") => pc' = 0]_vars
  /\ [][at = "run" => (pc' = pc + 1 /\ pc' <= Len(code) /\ code' = code)]_vars
  /\ [](at = "run" => pc < Len(code))
  /\ [](at = "report" => pc = Len(code))
  /\ []((at = "raised" /\ VMFailure) => (pc >= 1 /\ pc <= Len(code)))

\* A run of a Program of six instructions has ended without failure.
C5_Witness == at = "report" /\ pc = 6 /\ Len(code) = 6

\* C6: STORE on an empty stack and ADD, SUB, MUL or DIV on fewer than two
\* values fail with the stack-underflow failure, also DIV on the single
\* value 0, and nothing executes after the failure.
C6_Underflow ==
  /\ [][(Running /\ Underflows) => (at' = "raised" /\ IsUnderflow(err'))]_vars
  /\ [][at = "raised" => FALSE]_vars

\* DIV has failed with stack underflow on a stack holding only 0.
C6_Witness ==
  /\ at = "raised"
  /\ IsUnderflow(err)
  /\ code[pc].op = "DIV"
  /\ stack = <<0>>

(***************************************************************************)
(* The STORE instructions executed so far in the run.                      *)
(***************************************************************************)
StoredNames == {stores[k].name : k \in 1..Len(stores)}

\* The value popped by the last executed STORE of name n.
LastStored(n) ==
  LET k == CHOOSE j \in 1..Len(stores) :
             /\ stores[j].name = n
             /\ \A h \in (j + 1)..Len(stores) : stores[h].name # n
  IN  stores[k].val

\* A STORE of the operand of the instruction about to execute is among the
\* instructions already executed.
StoredEarlier == \E k \in 1..pc : code[k] = Instr("STORE", arg)

\* C7: LOAD fails with the undefined-identifier failure naming its
\* identifier exactly when no STORE of that very name was executed earlier
\* in the run; otherwise it pushes the value of the last such STORE and
\* leaves the environment as it was.
C7_Load ==
  [][(Running /\ op = "LOAD") =>
       /\ env' = env
       /\ IF StoredEarlier
            THEN /\ at' = "run"
                 /\ stack' = Append(stack, LastStored(arg.s))
            ELSE /\ at' = "raised"
                 /\ err' = NameError(arg)
                 /\ err'.detail = code[pc + 1].arg]_vars

\* A LOAD has pushed the second of two different values stored under one
\* name.
C7_Witness ==
  /\ at = "run"
  /\ pc >= 1
  /\ code[pc].op = "LOAD"
  /\ Len(stores) = 2
  /\ stores[1].name = stores[2].name
  /\ stores[1].val # stores[2].val
  /\ code[pc].arg.s = stores[2].name
  /\ Last(stack) = stores[2].val

\* C8: DIV fails with the division-by-zero failure exactly when the stack
\* holds at least two values and the top one is 0; then both operands are
\* gone, no quotient is pushed and nothing executes afterwards; zero
\* divided by a non-zero value is no failure and pushes 0.
C8_DivisionByZero ==
  /\ [][(Running /\ op = "DIV") =>
          /\ (at' = "raised" /\ err' = ZeroDivisionError)
               <=> (Len(stack) >= 2 /\ Last(stack) = 0)
          /\ (Len(stack) >= 2 /\ Last(stack) = 0)
               => stack' = SubSeq(stack, 1, Len(stack) - 2)
          /\ (Len(stack) >= 2 /\ Last(stack) # 0 /\ stack[Len(stack) - 1] = 0)
               => (at' = "run" /\ stack' = Append(SubSeq(stack, 1, Len(stack) - 2), 0))]_vars
  /\ [][(at = "raised" /\ err = ZeroDivisionError) => FALSE]_vars

\* A division by zero has failed.
C8_Witness ==
  /\ at = "raised"
  /\ err = ZeroDivisionError
  /\ code[pc].op = "DIV"

\* C9: an invocation that fails, in the Parser or in the VM, reports
\* nothing: the prompt is the last thing written; and the VM executes
\* instructions only after the whole source has been parsed.
C9_NoPartialResult ==
  /\ [](err # NoFailure => (at = "raised" /\ Len(out) >= 1 /\ Last(out) = Prompt))
  /\ [](at = "run" => (cur.type = "EOF" /\ Last(code).op = "HALT"))
  /\ [][(pc' # pc \/ stack' # stack \/ env' # env)
          => (at = "run" \/ (at' = "run" /\ cur'.type = "EOF"))]_vars

\* A run has failed after executing several instructions.
C9_Witness == at = "raised" /\ VMFailure /\ pc >= 3 /\ Last(out) = Prompt

\* C10: when a run has halted, the environment holds exactly the names
\* for which a STORE executed, each with the value popped by the last
\* STORE of that name; no instruction but STORE changes the environment,
\* and the result reported is the top of the final stack when there is
\* one.
C10_Environment ==
  /\ [](at \in {"run", "report"} =>
          /\ DOMAIN env = StoredNames
          /\ \A n \in StoredNames : env[n] = LastStored(n))
  /\ [][(Running /\ op # "STORE") => env' = env]_vars
  /\ [][at = "report" =>
          /\ env' = env
          /\ IF Len(stack) > 0
               THEN Last(out') = Line("Result:", Last(stack))
               ELSE Last(out') = Line("Stack:", <<>>)]_vars

\* A run in which a name was stored twice with different values has
\* halted with a value on the stack.
C10_Witness ==
  /\ at = "report"
  /\ Len(stores) = 2
  /\ stores[1].name = stores[2].name
  /\ stores[1].val # stores[2].val
  /\ Len(stack) > 0

(***************************************************************************)
(* Wrapped and unwrapped sources                                           *)
(***************************************************************************)
\* The parse of the current source has ended, with a Program or a failure.
ParseFailed == at = "raised" /\ err.type \in {"SyntaxError", "ValueError"}
ParseEnded == at = "run" \/ ParseFailed

IsWrapped(s) ==
  /\ Len(s) >= 10
  /\ SubSeq(s, 1, 5) = MAIN_ \o <<" ">>
  /\ SubSeq(s, Len(s) - 3, Len(s)) = <<" ">> \o END_

Inner(s) == SubSeq(s, 6, Len(s) - 4)

\* A text of expressions: no NUL character and no MAIN or END token.
NoMainEnd(x) ==
  /\ \A k \in 1..Len(x) : x[k] # NUL
  /\ \A k \in 1..Len(Tokens(x, 0).toks) : Tokens(x, 0).toks[k].type \notin {"MAIN", "END"}

\* C11: for a text X of expressions without MAIN or END, 'main X end'
\* compiles to the Program X compiles to, and fails to parse when X does.
C11_WrapIsTransparent ==
  ParseEnded =>
    /\ (at = "run") <=> (program(src).err = NoFailure)
    /\ at = "run" => code = program(src).code
    /\ (IsWrapped(src) /\ NoMainEnd(Inner(src))) =>
         /\ (at = "run") <=> (program(Inner(src)).err = NoFailure)
         /\ at = "run" => code = program(Inner(src)).code

\* A wrapped source of three expressions has been parsed.
C11_Witness ==
  /\ at = "run"
  /\ IsWrapped(src)
  /\ NoMainEnd(Inner(src))
  /\ Len(code) = 4
  /\ program(Inner(src)).code = code

\* A wrapped source whose inner text does not parse has failed.
C11_WitnessFails ==
  /\ ParseFailed
  /\ IsWrapped(src)
  /\ NoMainEnd(Inner(src))
  /\ program(Inner(src)).err # NoFailure

(***************************************************************************)
(* The grammar, on a token stream (its EOF left out):                      *)
(*   program := MAIN {expression} END | {expression}                       *)
(*   expression := NUMBER | IDENT | DEF IDENT | ADD | SUB | MUL | DIV      *)
(***************************************************************************)
RECURSIVE IsExpressions(_)
IsExpressions(ts) ==
  IF Len(ts) = 0 THEN TRUE
  ELSE IF ts[1].type \in {"NUMBER", "IDENT"} \cup Operators THEN IsExpressions(Tail(ts))
  ELSE IF ts[1].type = "DEF" /\ Len(ts) >= 2 /\ ts[2].type = "IDENT"
    THEN IsExpressions(Tail(Tail(ts)))
  ELSE FALSE

MatchesGrammar(ts) ==
  \/ IsExpressions(ts)
  \/ /\ Len(ts) >= 2
     /\ ts[1].type = "MAIN"
     /\ Last(ts).type = "END"
     /\ IsExpressions(SubSeq(ts, 2, Len(ts) - 1))

\* C12: Parser.program() returns a Program exactly when the token stream
\* of the source matches the grammar, and raises a syntax failure in every
\* other case.
C12_ProgramIffGrammar ==
  ParseEnded =>
    LET t == Tokens(src, 0)
    IN  IF ~t.raised /\ MatchesGrammar(t.toks)
          THEN at = "run"
          ELSE at = "raised" /\ err.type = "SyntaxError"

\* The same for the sources on which the Lexer does not raise.
C12_WhenLexerReturns ==
  (ParseEnded /\ ~Tokens(src, 0).raised) =>
    /\ (at = "run") <=> MatchesGrammar(Tokens(src, 0).toks)
    /\ at = "raised" => err.type = "SyntaxError"

(***************************************************************************)
(* Characters that start no lexeme                                         *)
(***************************************************************************)
IsOther(c) ==
  /\ ~isspace(c)
  /\ ~isalpha(c)
  /\ c # "_"
  /\ c \notin DecimalDigits
  /\ c \notin {"+", "-", "*", "/"}

\* C13: positioned at a character c that is no whitespace, letter,
\* underscore, decimal digit or operator, next_token returns the Error
\* token carrying c at c's offset, moves the cursor by one and does not
\* raise; NUL and digit-like characters that are no decimal digits
\* included.
C13_ErrorToken ==
  \A j \in 0..(Len(src) - 1) :
    IsOther(src[j + 1]) =>
      LET r == next_token(src, j)
      IN  /\ ~r.raised
          /\ r.tok = Token("ERROR", Str(<<src[j + 1]>>), j)
          /\ r.i = j + 1

\* The same for the characters other than NUL and the digit-like ones.
C13_OrdinaryCharacters ==
  \A j \in 0..(Len(src) - 1) :
    (IsOther(src[j + 1]) /\ src[j + 1] # NUL /\ ~isdigit(src[j + 1])) =>
      LET r == next_token(src, j)
      IN  /\ ~r.raised
          /\ r.tok = Token("ERROR", Str(<<src[j + 1]>>), j)
          /\ r.i = j + 1

(***************************************************************************)
(* Unread input                                                            *)
(***************************************************************************)
HasNul(s) == \E k \in 1..Len(s) : s[k] = NUL

\* C14: when Parser.program() has returned a Program, the cursor of the
\* Lexer is at the end of the source and the lookahead is the EOF found
\* there: no suffix of the source was left unread.
C14_NothingLeftUnread ==
  at = "run" => (i = Len(src) /\ cur = Token("EOF", None, Len(src)))

\* The same for the sources that hold no NUL character.
C14_WithoutNul ==
  (at = "run" /\ ~HasNul(src)) => (i = Len(src) /\ cur = Token("EOF", None, Len(src)))

(***************************************************************************)
(* End of input                                                            *)
(***************************************************************************)
EofAtEnd(s) == [raised |-> FALSE, tok |-> Token("EOF", None, Len(s)), i |-> Len(s)]

Parsing == at \in {"program", "code_block", "code_block_main"}

\* C15: from a cursor with only whitespace between it and the end of the
\* input, next_token returns the Eof token with no payload and pos the
\* input length, leaving the cursor there, and a further call from there
\* returns the same again, without raising; the Parser's own further call
\* after the final EOF leaves lookahead and cursor as they were.
C15_EofIsStable ==
  /\ [](\A j \in 0..Len(src) :
          consume_ws(src, j) = Len(src) =>
            /\ next_token(src, j) = EofAtEnd(src)
            /\ next_token(src, next_token(src, j).i) = next_token(src, j))
  /\ [][(Parsing /\ cur = EofAtEnd(src).tok /\ i = Len(src))
          => (cur' = cur /\ i' = i /\ err'.type # "ValueError")]_vars

\* The Parser has called next_token again after the EOF of a source that
\* ends in whitespace.
C15_Witness ==
  /\ at = "run"
  /\ Len(src) >= 2
  /\ isspace(src[Len(src)])
  /\ cur = EofAtEnd(src).tok
  /\ i = Len(src)

(***************************************************************************)
(* Whitespace                                                              *)
(***************************************************************************)
\* The text without its leading whitespace.
RECURSIVE DropSpace(_)
DropSpace(s) == IF Len(s) > 0 /\ isspace(s[1]) THEN DropSpace(Tail(s)) ELSE s

\* The text with every run of whitespace between two lexemes replaced by
\* one blank, and without leading and trailing whitespace.
RECURSIVE Squeeze(_)
Squeeze(s) ==
  LET t == DropSpace(s)
  IN  IF Len(t) = 0 THEN <<>>
      ELSE IF Len(t) >= 2 /\ isspace(t[2]) /\ Len(DropSpace(Tail(t))) > 0
        THEN <<t[1], " ">> \o Squeeze(Tail(t))
      ELSE <<t[1]>> \o Squeeze(Tail(t))

\* Kinds and payloads of a token stream.
Payloads(t) ==
  [raised |-> t.raised,
   toks |-> [k \in 1..Len(t.toks) |-> [type |-> t.toks[k].type, val |-> t.toks[k].val]]]

\* C16: a source gives the tokens (kinds and payloads) and the Program of
\* the same text with single blanks between its lexemes and no leading or
\* trailing whitespace; so two sources that differ only in whitespace
\* give the same tokens and the same Program.
C16_WhitespaceInsignificant ==
  /\ Payloads(Tokens(src, 0)) = Payloads(Tokens(Squeeze(src), 0))
  /\ ParseEnded =>
       /\ (at = "run") <=> (program(Squeeze(src)).err = NoFailure)
       /\ at = "run" => code = program(Squeeze(src)).code

\* A source of two expressions with more whitespace than single blanks
\* has been parsed.
C16_Witness ==
  /\ at = "run"
  /\ Len(code) = 3
  /\ Len(src) >= Len(Squeeze(src)) + 3

(***************************************************************************)
(* Successive invocations                                                  *)
(***************************************************************************)
\* C17: every invocation starts afresh, whatever the invocations before
\* it did: its Lexer starts at offset 0 of its own source and its Parser
\* with no code; its VM starts with program counter 0, an empty stack and
\* an empty environment, on the Program of its own source; hence a name
\* is bound only if a STORE of this invocation has bound it.
C17_FreshInvocation ==
  /\ [][(at = "prompt" /\ at' \notin {"prompt", "exited"}) =>
          /\ src' = Head(stdin)
          /\ i' = next_token(src', 0).i
          /\ at' = "program" => (cur' = next_token(src', 0).tok /\ code' = <<>>)]_vars
  /\ [][(at # "run" /\ at' = "run") =>
          /\ pc' = 0
          /\ stack' = <<>>
          /\ env' = <<>>
          /\ code' = program(src).code]_vars
  /\ [](at = "run" =>
          \A n \in DOMAIN env : \E k \in 1..pc : code[k] = Instr("STORE", Str(n)))

\* After an invocation that stored x and reported, the next invocation
\* finds x unbound.
C17_Witness ==
  /\ at = "raised"
  /\ err = NameError(Str(<<"x">>))
  /\ \E k \in 1..Len(out) : out[k].tag = "Env:" /\ <<"x">> \in DOMAIN out[k].v

(***************************************************************************)
(* The read loop and failures                                              *)
(***************************************************************************)
\* C18: a failure of an invocation is caught by the read loop, which goes
\* on to prompt for the next line; the loop ends only at the end of the
\* input.
C18_LoopSurvivesFailure ==
  /\ [][(err' # err
            /\ err'.type \in {"SyntaxError", "RuntimeError", "NameError", "ZeroDivisionError"})
          => at' = "prompt"]_vars
  /\ [](at = "exited" => stdin = <<>>)

\* What the loop does instead: a failure ends the process with input
\* lines still unread.
C18_FailureEndsProcess == at = "raised" /\ Len(stdin) > 0

(***************************************************************************)
(* The state a failing instruction leaves                                  *)
(***************************************************************************)
\* C19 as stated: a failing instruction leaves the stack and the
\* environment as they were before it started.
C19_Original == [][Fails => (stack' = stack /\ env' = env)]_vars

\* C19, amended: an instruction failing with stack underflow or with an
\* undefined identifier leaves the stack and the environment as they
\* were; a DIV failing with division by zero leaves the environment as it
\* was and the stack without the two operands, which pop2 has already
\* popped, and pushes nothing.
C19_FailureFrame ==
  [][Fails =>
       /\ env' = env
       /\ stores' = stores
       /\ IF err' = ZeroDivisionError
            THEN stack' = SubSeq(stack, 1, Len(stack) - 2)
            ELSE stack' = stack]_vars

\* An arithmetic opcode has failed for want of a second operand, the one
\* value still on the stack.
C19_Witness ==
  /\ at = "raised"
  /\ IsUnderflow(err)
  /\ code[pc].op \in {"ADD", "SUB", "MUL"}
  /\ Len(stack) = 1

(***************************************************************************)
(* The cursor of the lexer and the end of the parse                        *)
(***************************************************************************)
\* C20: the cursor i of a Lexer stays within 0..len(src) and never goes
\* back; a call of next_token that returns a token other than EOF leaves
\* the cursor at least one character further; Parser.program calls
\* next_token at most len(src) + 1 times, and every iteration of the loop
\* of code_block pulls at least one token or raises, so the parse ends.
C20_CursorAndTermination ==
  /\ [](0 <= i /\ i <= Len(src))
  /\ [][at # "prompt" => i' >= i]_vars
  /\ [](\A j \in 0..Len(src) :
          LET r == next_token(src, j)
          IN  /\ j <= r.i /\ r.i <= Len(src)
              /\ (~r.raised /\ r.tok.type # "EOF") => r.i >= j + 1)
  /\ [](pulled <= Len(src) + 1)
  /\ [][(at \in {"code_block", "code_block_main"} /\ Parsing') => pulled' > pulled]_vars
  /\ [][(Parsing /\ cur.type \in {"END", "EOF"} /\ at # "program") => ~Parsing']_vars

\* A parse has returned a Program of a text of three tokens of one
\* character each, having pulled len(src) + 1 tokens.
C20_Witness ==
  /\ at = "run"
  /\ Len(src) = 3
  /\ i = 3
  /\ pulled = Len(src) + 1

====
